---- MODULE Spec2Model ----
(***************************************************************************)
(* Model of the Felix agent (calico/felix/felix.py): the message handlers, *)
(* the endpoint resynchronisation state machine, the two request queues    *)
(* and the tail of the main loop (timeouts, queue drain, periodic resync). *)
(*                                                                         *)
(* One action per message handler; one action (LoopTail) for everything    *)
(* the loop does after the handlers of an iteration.  The Endpoint,        *)
(* Socket and futils classes live outside felix.py; they are modelled by   *)
(* the interface the agent relies on.                                      *)
(***************************************************************************)
EXTENDS Integers, Sequences, FiniteSets, TLC

\* ------------------------------------------------------------ bounds
MaxResync == 1      \* resync ids (uuid4 values) that may be allocated after the first
MaxCount  == 1      \* largest endpoint_count a RESYNCSTATE reply announces
MaxQueue  == 1      \* backlog of acl_queue up to which new endpoints are declared
MaxTime   == 3      \* wall clock (seconds) up to which time advances

\* ------------------------------------------------------------ constants
\* Config.RESYNC_INT_SEC: seconds between periodic resyncs (a short interval).
RESYNC_INT_SEC == 1
None == -1

Ids   == {"e1", "e2"}
Macs  == {"m1"}
AddrLists == {<<"a1", "a1">>}

TYPE_EP_REQ  == "EP_REQ"
TYPE_EP_REP  == "EP_REP"
TYPE_ACL_REQ == "ACL_REQ"
TYPE_ACL_SUB == "ACL_SUB"
EP_TYPES      == {TYPE_EP_REQ, TYPE_EP_REP}
ACL_TYPES     == {TYPE_ACL_REQ, TYPE_ACL_SUB}
REQUEST_TYPES == {TYPE_EP_REQ, TYPE_ACL_REQ}
SocketTypes   == EP_TYPES \cup ACL_TYPES

\* Endpoint.suffix: the handle naming the endpoint's rule chain.
Suffix(endpoint_id) == IF endpoint_id = "e1" THEN "s1" ELSE "s2"
Suffixes == {Suffix(i) : i \in Ids}

\* Message(type, fields) as sent on a REQ socket.
Message(type, endpoint_id, rid) ==
    [type |-> type, endpoint_id |-> endpoint_id, resync_id |-> rid]

\* Address(addr) for each entry of the 'addrs' list, collected in a set.
AddressSet(addrs) == {addrs[k] : k \in 1..Len(addrs)}

VARIABLES
    endpoints,            \* self.endpoints: id -> Endpoint
    subscribed,           \* SUBSCRIBE options set on the ACL_SUB zmq socket
    sub_seen,             \* ids subscribed since ACL_SUB was connected (publications may be in flight)
    rules,                \* suffixes with rules installed (futils.list_eps_with_rules)
    resync_id,            \* self.resync_id
    resync_recd,          \* self.resync_recd
    resync_expected,      \* self.resync_expected
    resync_time,          \* self.resync_time (milliseconds)
    endpoint_queue,       \* self.endpoint_queue (deque; index 1 is the left end)
    acl_queue,            \* self.acl_queue
    request_outstanding,  \* Socket.request_outstanding of the two REQ sockets
    wire,                 \* requests sent on each REQ socket and not yet answered
    known_rids,           \* resync ids the plugin has been sent
    next_uuid,            \* the next value uuid.uuid4() returns
    now,                  \* time.time() in seconds
    handled,              \* sockets already read in this loop iteration
    pc,                   \* "loop" or "crashed" (an exception left run())
    ev,                   \* what the last step did (observation only)
    declared,             \* history: endpoints declared under the active resync id
    snap,                 \* history: the outcome of the last successful resync
    asked                 \* history: ids whose GETACLSTATE went out since the resync began

vars == <<endpoints, subscribed, sub_seen, rules, resync_id, resync_recd,
          resync_expected, resync_time, endpoint_queue, acl_queue,
          request_outstanding, wire, known_rids, next_uuid, now, handled, pc, ev,
          declared, snap, asked>>

history == <<declared, snap, asked>>

\* ------------------------------------------------------------ observation
NoSnap == [valid |-> FALSE, declared |-> {}, endpoints |-> << >>, rules |-> {}]

\* Message(type, fields) as sent on the REP socket; fields as a set of pairs.
Reply(type, fields) == [type |-> type, fields |-> fields]
NoReply == Reply("", {})
Success == {<<"rc", "SUCCESS">>, <<"message", "">>}

NoEv(op) ==
    [op |-> op, id |-> "", rid |-> None, known |-> FALSE,
     completed |-> "no", removed |-> {}, counted |-> 0, replies |-> 0,
     timed |-> {}, resynced |-> FALSE, acl_resynced |-> FALSE,
     rc |-> "", reply |-> NoReply, reconnected |-> {}, drained |-> {},
     unsubscribed_request |-> FALSE, sent |-> {}]

\* The agent's mutable state as one value, handed through the methods.
Self(op) ==
    [endpoints |-> endpoints, subscribed |-> subscribed, sub_seen |-> sub_seen,
     rules |-> rules, resync_id |-> resync_id, resync_recd |-> resync_recd,
     resync_expected |-> resync_expected, resync_time |-> resync_time,
     endpoint_queue |-> endpoint_queue, acl_queue |-> acl_queue,
     request_outstanding |-> request_outstanding, wire |-> wire,
     known_rids |-> known_rids, next_uuid |-> next_uuid, now |-> now,
     crashed |-> FALSE, ev |-> NoEv(op)]

Commit(S) ==
    /\ endpoints' = S.endpoints
    /\ subscribed' = S.subscribed
    /\ sub_seen' = S.sub_seen
    /\ rules' = S.rules
    /\ resync_id' = S.resync_id
    /\ resync_recd' = S.resync_recd
    /\ resync_expected' = S.resync_expected
    /\ resync_time' = S.resync_time
    /\ endpoint_queue' = S.endpoint_queue
    /\ acl_queue' = S.acl_queue
    /\ request_outstanding' = S.request_outstanding
    /\ wire' = S.wire
    /\ known_rids' = S.known_rids
    /\ next_uuid' = S.next_uuid
    /\ pc' = IF S.crashed THEN "crashed" ELSE pc
    /\ ev' = S.ev

\* ------------------------------------------------------------ collaborators
\* Endpoint(endpoint_id, mac): a new endpoint record.
Endpoint(endpoint_id, mac) ==
    [mac |-> mac, addresses |-> {}, pending_resync |-> FALSE, need_acls |-> TRUE]

\* endpoint.program_endpoint(): install the endpoint's packet-filter rules.
program_endpoint(S, endpoint_id) ==
    [S EXCEPT !.rules = @ \cup {Suffix(endpoint_id)}]

\* endpoint.remove(): remove the endpoint's packet-filter rules.
remove(S, endpoint_id) ==
    [S EXCEPT !.rules = @ \ {Suffix(endpoint_id)},
              !.ev.removed = @ \cup {endpoint_id}]

\* futils.list_eps_with_rules() and futils.del_rules(id).
list_eps_with_rules(S) == S.rules
del_rules(S, ids) == [S EXCEPT !.rules = @ \ ids]

\* Observation: a GETACLSTATE is issued for an id that is not subscribed.
Unsubscribed(S, message) ==
    message.type = "GETACLSTATE" /\ message.endpoint_id \notin S.subscribed

\* Socket.send(message): a REQ socket now has a request outstanding.
SocketSend(S, socket_type, message) ==
    IF socket_type \in REQUEST_TYPES
    THEN [S EXCEPT !.request_outstanding[socket_type] = TRUE,
                   !.ev.unsubscribed_request = @ \/ Unsubscribed(S, message),
                   !.ev.sent = @ \cup {message},
                   !.wire[socket_type] = Append(@, message),
                   !.known_rids = IF message.type = "RESYNCSTATE"
                                  THEN @ \cup {message.resync_id} ELSE @]
    ELSE [S EXCEPT !.ev.replies = @ + 1, !.ev.reply = message]

\* Socket.receive() on a REQ socket: the reply clears request_outstanding.
SocketReceive(S, socket_type) ==
    [S EXCEPT !.request_outstanding[socket_type] = FALSE,
              !.wire[socket_type] = Tail(@)]

\* Socket.close() then Socket.communicate(): a new underlying connection.
Reconnect(S, socket_type) ==
    LET S1 == [S EXCEPT !.ev.reconnected = @ \cup {socket_type}] IN
    IF socket_type \in REQUEST_TYPES
    THEN [S1 EXCEPT !.request_outstanding[socket_type] = FALSE,
                    !.wire[socket_type] = <<>>]
    ELSE IF socket_type = TYPE_ACL_SUB
    THEN [S1 EXCEPT !.subscribed = {}, !.sub_seen = {}]
    ELSE S1

\* ------------------------------------------------------------ FelixAgent
appendleft(S, message, socket_type) ==
    IF socket_type = TYPE_EP_REQ
    THEN [S EXCEPT !.endpoint_queue = <<message>> \o @]
    ELSE [S EXCEPT !.acl_queue = <<message>> \o @,
                   !.ev.unsubscribed_request = @ \/ Unsubscribed(S, message)]

\* As send_request, without the test of request_outstanding.
send_request_unchecked(S, message, socket_type) ==
    SocketSend(S, socket_type, message)

send_request(S, message, socket_type) ==
    IF S.request_outstanding[socket_type]
    THEN appendleft(S, message, socket_type)
    ELSE SocketSend(S, socket_type, message)

MarkPending(eps) ==
    [i \in DOMAIN eps |-> [eps[i] EXCEPT !.pending_resync = TRUE]]

\* As resync_endpoints, without the two queue.clear() calls.
resync_endpoints_keep_queues(S) ==
    LET S1 == [S EXCEPT !.resync_id = S.next_uuid,
                        !.next_uuid = @ + 1,
                        !.resync_recd = 0,
                        !.resync_expected = 0,
                        !.endpoints = MarkPending(@),
                        !.ev.resynced = TRUE]
    IN  send_request(S1, Message("RESYNCSTATE", "", S1.resync_id), TYPE_EP_REQ)

resync_endpoints(S) ==
    LET S1 == [S EXCEPT !.resync_id = S.next_uuid,
                        !.next_uuid = @ + 1,
                        !.resync_recd = 0,
                        !.resync_expected = 0,
                        !.endpoints = MarkPending(@),
                        !.endpoint_queue = <<>>,
                        !.acl_queue = <<>>,
                        !.ev.resynced = TRUE]
    IN  send_request(S1, Message("RESYNCSTATE", "", S1.resync_id), TYPE_EP_REQ)

\* resync_acls: order is the iteration order of self.endpoints.iteritems().
RECURSIVE RequestAcls(_, _)
RequestAcls(S, order) ==
    IF order = <<>> THEN S
    ELSE LET id == Head(order)
             S1 == [S EXCEPT !.endpoints[id].need_acls = TRUE]
         IN  RequestAcls(send_request(S1, Message("GETACLSTATE", id, None),
                                      TYPE_ACL_REQ),
                         Tail(order))

resync_acls(S, order) ==
    RequestAcls([S EXCEPT !.acl_queue = <<>>, !.ev.acl_resynced = TRUE], order)

PendingEndpoints(S) ==
    {i \in DOMAIN S.endpoints : S.endpoints[i].pending_resync}

RECURSIVE RemoveAll(_, _)
RemoveAll(S, ids) ==
    IF ids = {} THEN S
    ELSE LET i == CHOOSE x \in ids : TRUE
         IN  RemoveAll(remove(S, i), ids \ {i})

complete_endpoint_resync(S, successful) ==
    LET S1 == [S EXCEPT !.resync_id = None,
                        !.resync_recd = None,
                        !.resync_expected = None,
                        !.resync_time = S.now * 1000,
                        !.ev.completed = IF successful THEN "ok" ELSE "fail"]
        S2 == IF successful THEN RemoveAll(S1, PendingEndpoints(S1)) ELSE S1
        rule_ids  == list_eps_with_rules(S2)
        known_ids == {Suffix(i) : i \in DOMAIN S2.endpoints}
    IN  del_rules(S2, {id \in rule_ids : id \notin known_ids})

\* As create_endpoint, with the SUBSCRIBE option left out.
create_endpoint_unsubscribed(S, endpoint_id, mac) ==
    LET S1 == [S EXCEPT !.endpoints = (endpoint_id :> Endpoint(endpoint_id, mac)) @@ @]
    IN  send_request(S1, Message("GETACLSTATE", endpoint_id, None), TYPE_ACL_REQ)

\* As create_endpoint, with the GETACLSTATE issued before the SUBSCRIBE.
create_endpoint_request_first(S, endpoint_id, mac) ==
    LET S1 == [S EXCEPT !.endpoints = (endpoint_id :> Endpoint(endpoint_id, mac)) @@ @]
        S2 == send_request(S1, Message("GETACLSTATE", endpoint_id, None), TYPE_ACL_REQ)
    IN  [S2 EXCEPT !.subscribed = @ \cup {endpoint_id},
                   !.sub_seen = @ \cup {endpoint_id}]

create_endpoint(S, endpoint_id, mac) ==
    LET S1 == [S EXCEPT !.endpoints = (endpoint_id :> Endpoint(endpoint_id, mac)) @@ @,
                        !.subscribed = @ \cup {endpoint_id},
                        !.sub_seen = @ \cup {endpoint_id}]
    IN  send_request(S1, Message("GETACLSTATE", endpoint_id, None), TYPE_ACL_REQ)

update_endpoint(S, endpoint_id, fields) ==
    program_endpoint(
        [S EXCEPT !.endpoints[endpoint_id].addresses = AddressSet(fields.addrs),
                  !.endpoints[endpoint_id].mac = fields.mac],
        endpoint_id)

\* As handle_endpointcreated, counting every message that carries a resync id.
handle_endpointcreated_any_token(S, message) ==
    LET endpoint_id == message.endpoint_id
        rid         == message.resync_id
        known       == endpoint_id \in DOMAIN S.endpoints
        S1 == IF known /\ rid # None THEN S
              ELSE IF ~known THEN create_endpoint(S, endpoint_id, message.mac)
              ELSE S
        S2 == update_endpoint(S1, endpoint_id, message)
        S3 == SocketSend(S2, TYPE_EP_REP, Reply("ENDPOINTCREATED", Success))
        resync_in_progress == rid # None /\ S3.resync_id # None
        S4 == IF resync_in_progress
              THEN [S3 EXCEPT !.resync_recd = @ + 1, !.ev.counted = @ + 1]
              ELSE S3
        last_resync == /\ S4.resync_expected # None
                       /\ S4.resync_expected # 0
                       /\ S4.resync_recd = S4.resync_expected
    IN  IF resync_in_progress /\ last_resync
        THEN complete_endpoint_resync(S4, TRUE)
        ELSE S4

handle_endpointcreated(S, message) ==
    LET endpoint_id == message.endpoint_id
        rid         == message.resync_id
        known       == endpoint_id \in DOMAIN S.endpoints
        S1 == IF known /\ rid # None THEN S
              ELSE IF ~known THEN create_endpoint(S, endpoint_id, message.mac)
              ELSE S
        S2 == update_endpoint(S1, endpoint_id, message)
        S3 == SocketSend(S2, TYPE_EP_REP, Reply("ENDPOINTCREATED", Success))
        resync_in_progress == rid # None /\ rid = S3.resync_id
        S4 == IF resync_in_progress
              THEN [S3 EXCEPT !.resync_recd = @ + 1, !.ev.counted = @ + 1]
              ELSE S3
        last_resync == /\ S4.resync_expected # None
                       /\ S4.resync_expected # 0
                       /\ S4.resync_recd = S4.resync_expected
    IN  IF resync_in_progress /\ last_resync
        THEN complete_endpoint_resync(S4, TRUE)
        ELSE S4

handle_endpointupdated(S, message) ==
    IF message.endpoint_id \notin DOMAIN S.endpoints
    THEN [S EXCEPT !.crashed = TRUE]
    ELSE SocketSend(update_endpoint(S, message.endpoint_id, message),
                    TYPE_EP_REP, Reply("ENDPOINTCREATED", Success))

handle_endpointdestroyed(S, message) ==
    LET delete_id == message.endpoint_id IN
    IF delete_id \notin DOMAIN S.endpoints
    THEN S
    ELSE remove([S EXCEPT !.endpoints = [i \in DOMAIN @ \ {delete_id} |-> @[i]],
                          !.subscribed = @ \ {delete_id}],
                delete_id)

\* As handle_heartbeat, answering with the reply of an ENDPOINTCREATED.
handle_heartbeat_success_reply(S, message) ==
    SocketSend(S, TYPE_EP_REP, Reply("ENDPOINTCREATED", Success))

handle_heartbeat(S, message) ==
    SocketSend(S, TYPE_EP_REP, Reply("HEARTBEAT", {}))

\* As handle_resyncstate, completing a refused resync as a successful one.
handle_resyncstate_prune_refused(S, message) ==
    IF message.rc # "SUCCESS"
    THEN complete_endpoint_resync(S, TRUE)
    ELSE IF message.endpoint_count = 0 \/ message.endpoint_count = S.resync_recd
    THEN complete_endpoint_resync(S, TRUE)
    ELSE [S EXCEPT !.resync_expected = message.endpoint_count]

handle_resyncstate(S, message) ==
    IF message.rc # "SUCCESS"
    THEN complete_endpoint_resync(S, FALSE)
    ELSE IF message.endpoint_count = 0 \/ message.endpoint_count = S.resync_recd
    THEN complete_endpoint_resync(S, TRUE)
    ELSE [S EXCEPT !.resync_expected = message.endpoint_count]

handle_getaclstate(S, message) == S

handle_aclupdate(S, message) ==
    IF message.endpoint_id \notin DOMAIN S.endpoints
    THEN [S EXCEPT !.crashed = TRUE]
    ELSE S

\* ------------------------------------------------------------ actions
\* The state after FelixAgent.__init__: connected, first resync requested.
Init ==
    /\ endpoints = << >>
    /\ subscribed = {}
    /\ sub_seen = {}
    /\ rules \in SUBSET Suffixes
    /\ resync_id = 1
    /\ resync_recd = 0
    /\ resync_expected = 0
    /\ resync_time = None
    /\ endpoint_queue = <<>>
    /\ acl_queue = <<>>
    /\ request_outstanding = [t \in REQUEST_TYPES |-> t = TYPE_EP_REQ]
    /\ wire = [t \in REQUEST_TYPES |->
                 IF t = TYPE_EP_REQ THEN <<Message("RESYNCSTATE", "", 1)>> ELSE <<>>]
    /\ known_rids = {1}
    /\ next_uuid = 2
    /\ now = 1
    /\ handled = {}
    /\ pc = "loop"
    /\ ev = NoEv("init")
    /\ declared = {}
    /\ snap = NoSnap
    /\ asked = {}

\* sock.receive() returned a message on socket_type in this iteration.
Receives(socket_type) ==
    /\ pc = "loop"
    /\ socket_type \notin handled
    /\ handled' = handled \cup {socket_type}
    /\ now' = now

Tag(S, endpoint_id, rid) ==
    [S EXCEPT !.ev.id = endpoint_id, !.ev.rid = rid,
              !.ev.known = endpoint_id \in DOMAIN endpoints]

RecvHeartbeat ==
    /\ UNCHANGED history
    /\ Receives(TYPE_EP_REP)
    /\ Commit(handle_heartbeat(Self("heartbeat"), [type |-> "HEARTBEAT"]))

EndpointCreated ==
    /\ Receives(TYPE_EP_REP)
    /\ \E endpoint_id \in Ids, rid \in known_rids \cup {None},
          mac \in Macs, addrs \in AddrLists :
          /\ endpoint_id \notin DOMAIN endpoints => Len(acl_queue) < MaxQueue
          /\ rid = resync_id => resync_recd <= MaxCount
          /\ Commit(handle_endpointcreated(
                 Tag(Self("created"), endpoint_id, rid),
                 [endpoint_id |-> endpoint_id, resync_id |-> rid,
                  mac |-> mac, addrs |-> addrs]))

RecvEndpointUpdated ==
    /\ UNCHANGED history
    /\ Receives(TYPE_EP_REP)
    /\ \E endpoint_id \in Ids, mac \in Macs, addrs \in AddrLists :
          Commit(handle_endpointupdated(
                 Tag(Self("updated"), endpoint_id, None),
                 [endpoint_id |-> endpoint_id, mac |-> mac, addrs |-> addrs]))

RecvEndpointDestroyed ==
    /\ UNCHANGED history
    /\ Receives(TYPE_EP_REP)
    /\ \E endpoint_id \in Ids :
          Commit(handle_endpointdestroyed(
                 Tag(Self("destroyed"), endpoint_id, None),
                 [endpoint_id |-> endpoint_id]))

\* The plugin answers the RESYNCSTATE request outstanding on EP_REQ.
ResyncState ==
    /\ Receives(TYPE_EP_REQ)
    /\ wire[TYPE_EP_REQ] # <<>>
    /\ \E rc \in {"SUCCESS", "FAIL"}, endpoint_count \in 0..MaxCount :
          Commit(handle_resyncstate(
                 [Tag(SocketReceive(Self("resyncstate"), TYPE_EP_REQ),
                      "", Head(wire[TYPE_EP_REQ]).resync_id) EXCEPT !.ev.rc = rc],
                 [rc |-> rc, endpoint_count |-> endpoint_count]))

\* The ACL manager answers the GETACLSTATE request outstanding on ACL_REQ.
GetAclStateReply ==
    /\ Receives(TYPE_ACL_REQ)
    /\ wire[TYPE_ACL_REQ] # <<>>
    /\ \E rc \in {"SUCCESS", "FAIL"} :
          Commit(handle_getaclstate(
                 Tag(SocketReceive(Self("getaclstate"), TYPE_ACL_REQ),
                     Head(wire[TYPE_ACL_REQ]).endpoint_id, None),
                 [rc |-> rc]))

\* A publication for an id subscribed at some time on this connection.
RecvAclUpdate ==
    /\ UNCHANGED history
    /\ Receives(TYPE_ACL_SUB)
    /\ \E endpoint_id \in sub_seen :
          Commit(handle_aclupdate(
                 Tag(Self("aclupdate"), endpoint_id, None),
                 [endpoint_id |-> endpoint_id]))

\* The rest of a loop iteration, after the handlers: lines 489-537.
RECURSIVE ReconnectAll(_, _)
ReconnectAll(S, socks) ==
    IF socks = {} THEN S
    ELSE LET t == CHOOSE x \in socks : TRUE
             S1 == Reconnect(S, t)
             S2 == IF t = TYPE_EP_REQ THEN [S1 EXCEPT !.endpoint_queue = <<>>]
                   ELSE IF t = TYPE_ACL_REQ THEN [S1 EXCEPT !.acl_queue = <<>>]
                   ELSE S1
         IN  ReconnectAll(S2, socks \ {t})

\* queue.pop() takes the right end of the deque.
DrainEndpointQueue(S) ==
    IF Len(S.endpoint_queue) # 0 /\ ~S.request_outstanding[TYPE_EP_REQ]
    THEN SocketSend([S EXCEPT !.endpoint_queue = SubSeq(@, 1, Len(@) - 1),
                              !.ev.drained = @ \cup {TYPE_EP_REQ}],
                    TYPE_EP_REQ, S.endpoint_queue[Len(S.endpoint_queue)])
    ELSE S

\* As DrainAclQueue, taking the left end of the deque (popleft).
DrainAclQueue_popleft(S) ==
    IF Len(S.acl_queue) # 0 /\ ~S.request_outstanding[TYPE_ACL_REQ]
    THEN SocketSend([S EXCEPT !.acl_queue = Tail(@),
                              !.ev.drained = @ \cup {TYPE_ACL_REQ}],
                    TYPE_ACL_REQ, S.acl_queue[1])
    ELSE S

DrainAclQueue(S) ==
    IF Len(S.acl_queue) # 0 /\ ~S.request_outstanding[TYPE_ACL_REQ]
    THEN SocketSend([S EXCEPT !.acl_queue = SubSeq(@, 1, Len(@) - 1),
                              !.ev.drained = @ \cup {TYPE_ACL_REQ}],
                    TYPE_ACL_REQ, S.acl_queue[Len(S.acl_queue)])
    ELSE S

ResyncDue(S) ==
    S.resync_id = None /\ (S.now - S.resync_time > RESYNC_INT_SEC)

Orders(D) ==
    {o \in [1..Cardinality(D) -> D] : \A i, j \in DOMAIN o : i # j => o[i] # o[j]}

\* As run_tail, with a timeout of the ACL API not followed by resync_acls.
run_tail_no_acl_resync(S, timed_out, order) ==
    LET S1 == ReconnectAll([S EXCEPT !.ev.timed = timed_out], timed_out)
        S2 == DrainAclQueue(DrainEndpointQueue(S1))
        endpoint_resync_needed == timed_out \cap EP_TYPES # {} \/ ResyncDue(S2)
    IN  IF endpoint_resync_needed THEN resync_endpoints(S2) ELSE S2

run_tail(S, timed_out, order) ==
    LET S1 == ReconnectAll([S EXCEPT !.ev.timed = timed_out], timed_out)
        S2 == DrainAclQueue(DrainEndpointQueue(S1))
        endpoint_resync_needed == timed_out \cap EP_TYPES # {} \/ ResyncDue(S2)
        acl_resync_needed      == timed_out \cap ACL_TYPES # {}
    IN  IF endpoint_resync_needed THEN resync_endpoints(S2)
        ELSE IF acl_resync_needed THEN resync_acls(S2, order)
        ELSE S2

RunTail ==
    /\ pc = "loop"
    /\ \E timed_out \in SUBSET SocketTypes :
       \E order \in IF timed_out \cap ACL_TYPES # {} /\ timed_out \cap EP_TYPES = {}
                    THEN Orders(DOMAIN endpoints) ELSE {<<>>} :
          LET S == run_tail(Self("tail"), timed_out, order) IN
          /\ S.next_uuid <= MaxResync + 2
          /\ Commit(S)
    /\ handled' = {}
    /\ now' = now

\* Wall-clock time passes.
Tick ==
    /\ pc = "loop"
    /\ now < MaxTime
    /\ now' = now + 1
    /\ ev' = NoEv("tick")
    /\ UNCHANGED <<endpoints, subscribed, sub_seen, rules, resync_id, resync_recd,
                   resync_expected, resync_time, endpoint_queue, acl_queue,
                   request_outstanding, wire, known_rids, next_uuid, handled, pc,
                   declared, snap, asked>>

RecvEndpointCreated == EndpointCreated /\ UNCHANGED history
RecvResyncState     == ResyncState /\ UNCHANGED history
RecvGetAclState     == GetAclStateReply /\ UNCHANGED history
LoopTail            == RunTail /\ UNCHANGED history

Next ==
    \/ RecvHeartbeat
    \/ RecvEndpointCreated
    \/ RecvEndpointUpdated
    \/ RecvEndpointDestroyed
    \/ RecvResyncState
    \/ RecvGetAclState
    \/ RecvAclUpdate
    \/ LoopTail

Spec == Init /\ [][Next]_vars

\* The resync machine with the wall clock advancing.
NextClock ==
    \/ RecvHeartbeat
    \/ RecvResyncState
    \/ LoopTail
    \/ Tick

SpecClock == Init /\ [][NextClock]_vars

\* The resync machine with the history of what each resync declared.
Declaration(eps, i) == <<i, eps[i].mac, eps[i].addresses>>

\* Marks a resync during which an endpoint was declared outside the resync.
Undeclared == <<"", "", {}>>

HistoryStep ==
    /\ asked' = asked
    /\ declared' = IF ev'.resynced THEN {}
                   ELSE IF ev'.op = "created" /\ ev'.counted = 1
                   THEN declared \cup {Declaration(endpoints', ev'.id)}
                   ELSE IF ev'.op = "created"
                   THEN declared \cup {Undeclared}
                   ELSE declared
    /\ snap' = IF ev'.completed = "ok" /\ Undeclared \notin declared'
               THEN [valid |-> TRUE, declared |-> declared',
                     endpoints |-> endpoints', rules |-> rules']
               ELSE IF ev'.completed # "no" \/ (ev'.op = "created" /\ ev'.counted = 0)
               THEN NoSnap
               ELSE snap

IdemEndpointCreated == EndpointCreated /\ HistoryStep
IdemResyncState     == ResyncState /\ HistoryStep
IdemLoopTail        == RunTail /\ HistoryStep

NextIdem ==
    \/ IdemEndpointCreated
    \/ IdemResyncState
    \/ IdemLoopTail

SpecIdem == Init /\ [][NextIdem]_vars

\* The resync machine and the ACL requests, with the history of which
\* endpoints were declared and asked about since the resync was initiated.
AclHistoryStep ==
    /\ snap' = snap
    /\ declared' = IF ev'.resynced THEN {}
                   ELSE IF ev'.op = "created" /\ ev'.counted = 1
                   THEN declared \cup {Declaration(endpoints', ev'.id)}
                   ELSE declared
    /\ asked' = IF ev'.resynced THEN {}
                ELSE asked \cup {m.endpoint_id : m \in {x \in ev'.sent : x.type = "GETACLSTATE"}}

AclEndpointCreated == EndpointCreated /\ AclHistoryStep
AclResyncState     == ResyncState /\ AclHistoryStep
AclLoopTail        == RunTail /\ AclHistoryStep
AclGetAclState     == GetAclStateReply /\ AclHistoryStep

NextAcl ==
    \/ AclEndpointCreated
    \/ AclResyncState
    \/ AclLoopTail
    \/ AclGetAclState

SpecAcl == Init /\ [][NextAcl]_vars

\* ------------------------------------------------------------ properties
I1 == subscribed = DOMAIN endpoints

\* C1 (I1): every handler step (ENDPOINTCREATED, ENDPOINTUPDATED,
\* ENDPOINTDESTROYED, RESYNCSTATE reply, resync completion) and every loop tail
\* that does not reconnect ACL_SUB takes a state in which the subscribed ids
\* equal the registry keys to a state in which they are equal again; they are
\* equal initially.
C1_SubscriptionsMatchRegistry ==
    I1 /\ [][(I1 /\ TYPE_ACL_SUB \notin ev'.timed) => I1']_vars

\* An endpoint was destroyed while another one stays registered and subscribed.
C1_Witness ==
    /\ ev.op = "destroyed" /\ ev.known
    /\ endpoints # << >>
    /\ I1

RegistrySuffixes == {Suffix(i) : i \in DOMAIN endpoints}

\* C2 (I3): in the state right after complete_endpoint_resync(True) returned,
\* the installed rule suffixes are exactly the suffixes of the registry's
\* endpoints.
C2_RulesMatchRegistryAfterResync ==
    ev.completed = "ok" => rules = RegistrySuffixes

\* C3 (pruning): right after a successful completion, every endpoint that was
\* pending_resync (remove() was invoked on exactly those) is neither a key of
\* the registry nor subscribed, and whatever is left in the registry is not
\* pending.
C3_PendingEndpointsArePruned ==
    ev.completed = "ok" =>
        /\ \A i \in ev.removed : i \notin DOMAIN endpoints /\ i \notin subscribed
        /\ \A i \in DOMAIN endpoints : ~endpoints[i].pending_resync

\* C4: an ENDPOINTCREATED carrying the active resync_id is counted once and
\* leaves its endpoint, new or already registered, with pending_resync false.
C4_ResyncCreateClearsPending ==
    [][(ev'.op = "created" /\ ev'.rid # None /\ ev'.rid = resync_id) =>
          /\ ev'.counted = 1
          /\ ev'.id \in DOMAIN endpoints'
          /\ ~endpoints'[ev'.id].pending_resync]_vars

I2 == \A t \in REQUEST_TYPES :
          /\ Len(wire[t]) <= 1
          /\ request_outstanding[t] <=> wire[t] # <<>>

\* The GETACLSTATE request a newly created endpoint issues.
NewEndpointRequest == Message("GETACLSTATE", ev'.id, None)

\* C5 (I2): no REQ socket ever has more than one request in flight, and the
\* send_request of an endpoint creation sends at once on an idle ACL_REQ and
\* otherwise puts the message on the left of acl_queue, sending nothing.
C5_OneRequestInFlight ==
    /\ []I2
    /\ [][(ev'.op = "created" /\ ~ev'.known) =>
             IF request_outstanding[TYPE_ACL_REQ]
             THEN /\ acl_queue' = <<NewEndpointRequest>> \o acl_queue
                  /\ wire'[TYPE_ACL_REQ] = wire[TYPE_ACL_REQ]
             ELSE /\ acl_queue' = acl_queue
                  /\ wire'[TYPE_ACL_REQ] = <<NewEndpointRequest>>]_vars

\* A new endpoint's request was queued behind the request in flight.
C5_Witness ==
    /\ ev.op = "created" /\ ~ev.known
    /\ Len(wire[TYPE_ACL_REQ]) = 1
    /\ Len(acl_queue) = 1
    /\ acl_queue[1].endpoint_id = ev.id

\* C7 (I4): an ENDPOINTCREATED whose resync_id is null or is not the active
\* resync_id leaves the resync context alone (resync_recd is not advanced, no
\* completion runs), and still creates or updates the endpoint, programs it
\* and answers once on EP_REP.
C7_StaleTokenNotCounted ==
    [][(ev'.op = "created" /\ (ev'.rid = None \/ ev'.rid # resync_id)) =>
          /\ resync_recd' = resync_recd
          /\ resync_id' = resync_id
          /\ resync_expected' = resync_expected
          /\ ev'.counted = 0
          /\ ev'.completed = "no"
          /\ ev'.id \in DOMAIN endpoints'
          /\ endpoints'[ev'.id].addresses # {}
          /\ Suffix(ev'.id) \in rules'
          /\ (ev'.known \/ ev'.id \in subscribed')
          /\ ev'.replies = 1]_vars

\* A create carrying the id of a superseded resync arrived during a resync.
C7_Witness ==
    /\ ev.op = "created"
    /\ ev.rid # None /\ resync_id # None /\ ev.rid # resync_id
    /\ ev.counted = 0 /\ ev.replies = 1
    /\ ev.id \in DOMAIN endpoints

ResyncRequest(rid) == Message("RESYNCSTATE", "", rid)

InSeq(q, m) == \E k \in 1..Len(q) : q[k] = m

\* The RESYNCSTATE request of resync rid is queued or awaits its reply.
RequestPending(rid) ==
    InSeq(endpoint_queue, ResyncRequest(rid)) \/ InSeq(wire[TYPE_EP_REQ], ResyncRequest(rid))

\* C6: completion(True) runs at the later of the reply to the active RESYNC
\* and the last announced create, and not before: a create completes the
\* resync only once the reply to the active request is in; a reply completes
\* only the resync whose request it answers; and a SUCCESS reply to the active
\* request that does not complete leaves creates still to come.
C6_CompletesAtTheLater ==
    [][/\ (ev'.op = "created" /\ ev'.completed = "ok") =>
              ~RequestPending(resync_id)
       /\ (ev'.op = "resyncstate" /\ ev'.completed = "ok") =>
              ev'.rid = resync_id
       /\ (ev'.op = "resyncstate" /\ ev'.completed = "no" /\ ev'.rid = resync_id) =>
              /\ resync_expected' # 0
              /\ resync_expected' # resync_recd'
       /\ (ev'.op = "created" /\ ev'.counted = 1 /\ ev'.completed = "no") =>
              resync_recd' # resync_expected']_vars

Collecting ==
    resync_expected # None /\ resync_expected # 0 /\ resync_recd # resync_expected

InFlight ==
    \/ \E k \in 1..Len(endpoint_queue) : endpoint_queue[k].type = "RESYNCSTATE"
    \/ wire[TYPE_EP_REQ] # <<>>
    \/ Collecting

\* C8 (I5): resync_id is non-null exactly when a resync is in flight: its
\* RESYNCSTATE request is queued or awaits the reply, or the reply announced
\* creates that are not all counted yet.
C8_ResyncIdIffInFlight ==
    (resync_id # None) <=> InFlight

\* C9: once the clock is more than RESYNC_INT_SEC seconds past the last
\* completion and no resync is active, the loop iteration starts a resync.
C9_PeriodicResync ==
    [][(/\ ev'.op = "tail"
        /\ resync_id = None
        /\ resync_time # None
        /\ now - (resync_time \div 1000) > RESYNC_INT_SEC) => ev'.resynced]_vars

Registry(eps) == {Declaration(eps, i) : i \in DOMAIN eps}

\* C10: when a resync completes successfully right after another successful
\* one and both declared the same endpoints (ids, mac, addresses), the
\* registry and the installed rule suffixes are those left by the first.
C10_IdempotentResync ==
    [][(ev'.completed = "ok" /\ snap.valid /\ declared' = snap.declared) =>
          /\ Registry(endpoints') = Registry(snap.endpoints)
          /\ rules' = snap.rules]_vars

GetAclState(endpoint_id) == Message("GETACLSTATE", endpoint_id, None)

\* C11: when an endpoint resync completes successfully (the completing reply
\* answering the active request), every endpoint declared in it has had a
\* GETACLSTATE sent since the resync was initiated, or has one on acl_queue
\* or awaiting its reply; and no loop iteration calls both resync_endpoints
\* and resync_acls.
C11_EndpointResyncSubsumesAclResync ==
    [][/\ (ev'.completed = "ok" /\ ev'.rid = resync_id) =>
              \A i \in {d[1] : d \in declared'} \cap DOMAIN endpoints' :
                  \/ i \in asked'
                  \/ InSeq(acl_queue', GetAclState(i))
                  \/ InSeq(wire'[TYPE_ACL_REQ], GetAclState(i))
       /\ ~(ev'.resynced /\ ev'.acl_resynced)]_vars

\* The GETACLSTATE requests queued or awaiting their reply, oldest first.
AclRequests(q, w) == w \o [k \in 1..Len(q) |-> q[Len(q) + 1 - k]]

\* C12: a loop iteration that finds sockets timed out reconnects exactly
\* those; the queue of a timed-out REQ socket then holds only requests of the
\* resync this iteration starts; a timeout on the endpoint API starts an
\* endpoint resync under a resync_id not used before, and a timeout on the ACL
\* API starts an ACL resync unless the endpoint resync takes its place.
C12_TimeoutRecovery ==
    [][(ev'.op = "tail" /\ ev'.timed # {}) =>
          /\ ev'.reconnected = ev'.timed
          /\ ev'.timed \cap EP_TYPES # {} =>
                 /\ ev'.resynced
                 /\ resync_id' \notin known_rids \cup {resync_id, None}
          /\ ev'.timed \cap ACL_TYPES # {} => (ev'.acl_resynced \/ ev'.resynced)
          /\ TYPE_EP_REQ \in ev'.timed =>
                 \A k \in 1..Len(endpoint_queue') :
                     endpoint_queue'[k] = ResyncRequest(resync_id')
          /\ TYPE_ACL_REQ \in ev'.timed =>
                 LET reqs == AclRequests(acl_queue', wire'[TYPE_ACL_REQ]) IN
                 IF ev'.resynced THEN reqs = <<>>
                 ELSE /\ Len(reqs) = Cardinality(DOMAIN endpoints')
                      /\ {reqs[k] : k \in 1..Len(reqs)} =
                            {GetAclState(i) : i \in DOMAIN endpoints'}]_vars

\* ACL_REQ timed out with two endpoints registered: one request was sent on
\* the new connection and the other one queued behind it.
C12_Witness ==
    /\ ev.op = "tail" /\ TYPE_ACL_REQ \in ev.timed /\ ev.acl_resynced
    /\ ev.reconnected = ev.timed
    /\ Len(acl_queue) = 1 /\ Len(wire[TYPE_ACL_REQ]) = 1

\* A handler step only adds to the left end of q; a loop tail that clears
\* nothing sends the right end of q when socket_type is idle, and nothing else.
FifoStep(socket_type, q, qn) ==
    IF ev'.op # "tail"
    THEN /\ Len(qn) >= Len(q)
         /\ SubSeq(qn, Len(qn) - Len(q) + 1, Len(qn)) = q
    ELSE IF q # <<>> /\ ~request_outstanding[socket_type]
    THEN /\ socket_type \in ev'.drained
         /\ wire'[socket_type] = <<q[Len(q)]>>
         /\ qn = SubSeq(q, 1, Len(q) - 1)
    ELSE /\ socket_type \notin ev'.drained
         /\ wire'[socket_type] = wire[socket_type]
         /\ qn = q

C14_QueuesEmptyAfterResync ==
    ev.resynced => (endpoint_queue = <<>> /\ acl_queue = <<>>)

\* C14, amended: right after resync_endpoints() returned, acl_queue is empty
\* and nothing superseded is left on endpoint_queue: the new RESYNCSTATE
\* request was sent, or, EP_REQ still having a request outstanding, it is the
\* only message on endpoint_queue.
C14_ResyncSupersedes ==
    ev.resynced =>
        /\ acl_queue = <<>>
        /\ IF endpoint_queue = <<>>
           THEN wire[TYPE_EP_REQ] = <<ResyncRequest(resync_id)>>
           ELSE /\ endpoint_queue = <<ResyncRequest(resync_id)>>
                /\ wire[TYPE_EP_REQ] # <<>>
                /\ ResyncRequest(resync_id) \notin ev.sent

\* resync_endpoints() ran, with an endpoint registered, while an earlier
\* RESYNCSTATE was outstanding: the new request waits on endpoint_queue.
C14_Witness ==
    /\ ev.resynced
    /\ endpoint_queue = <<ResyncRequest(resync_id)>>
    /\ acl_queue = <<>>
    /\ endpoints # << >>

\* C15: an endpoint creation subscribes ACL_SUB to the id before it sends or
\* enqueues the GETACLSTATE for that id: ENDPOINTCREATED never issues a
\* GETACLSTATE for an id that is not subscribed at that moment, and a new
\* endpoint ends up subscribed with its request sent or queued.
C15_SubscribeBeforeRequest ==
    ev.op = "created" =>
        /\ ~ev.unsubscribed_request
        /\ ~ev.known =>
               /\ ev.id \in subscribed
               /\ \/ GetAclState(ev.id) \in ev.sent
                  \/ InSeq(acl_queue, GetAclState(ev.id))

\* A new endpoint was created and its GETACLSTATE sent on the idle ACL_REQ.
C15_Witness ==
    /\ ev.op = "created" /\ ~ev.known
    /\ ev.id \in subscribed
    /\ GetAclState(ev.id) \in ev.sent
    /\ ~ev.unsubscribed_request

\* C16: an ACLUPDATE for an id that is not in the registry is dropped: the
\* loop goes on, and registry, subscriptions, queues, resync context and
\* rules are as before.
C16_UnknownAclUpdateDropped ==
    [][(ev'.op = "aclupdate" /\ ~ev'.known) =>
          /\ pc' = "loop"
          /\ UNCHANGED <<endpoints, subscribed, rules, endpoint_queue, acl_queue,
                         resync_id, resync_recd, resync_expected>>]_vars

\* C17: handling an ENDPOINTCREATED, ENDPOINTUPDATED or ENDPOINTDESTROYED,
\* for a registered id or not, never ends the loop.
C17_LoopSurvivesEndpointMessages ==
    ev.op \in {"created", "updated", "destroyed"} => pc = "loop"

\* C18: a RESYNCSTATE reply with rc other than SUCCESS ends the resync
\* (resync_id None, resync_time set) as unsuccessful: remove() is invoked on
\* no endpoint, and the registry and the subscriptions stay as they were.
C18_RejectedResyncDoesNotPrune ==
    [][(ev'.op = "resyncstate" /\ ev'.rc # "SUCCESS") =>
          /\ ev'.completed = "fail"
          /\ resync_id' = None
          /\ resync_time' # None
          /\ ev'.removed = {}
          /\ endpoints' = endpoints
          /\ subscribed' = subscribed]_vars

\* A resync was refused while an endpoint of the registry was pending.
C18_Witness ==
    /\ ev.op = "resyncstate" /\ ev.rc = "FAIL" /\ ev.completed = "fail"
    /\ resync_id = None
    /\ \E i \in DOMAIN endpoints : endpoints[i].pending_resync /\ i \in subscribed

\* C19: handling a HEARTBEAT sends one HEARTBEAT with empty fields on EP_REP
\* and changes neither the registry, the subscriptions, the two request
\* queues nor the resync context.
C19_HeartbeatEcho ==
    [][ev'.op = "heartbeat" =>
          /\ ev'.replies = 1
          /\ ev'.reply = Reply("HEARTBEAT", {})
          /\ UNCHANGED <<endpoints, subscribed, endpoint_queue, acl_queue,
                         resync_id, resync_recd, resync_expected, resync_time>>]_vars

\* A heartbeat was answered during a resync, with an endpoint registered.
C19_Witness ==
    /\ ev.op = "heartbeat"
    /\ ev.reply = Reply("HEARTBEAT", {}) /\ ev.replies = 1
    /\ endpoints # << >>
    /\ resync_id # None

\* C20: every message received on EP_REP (HEARTBEAT, ENDPOINTCREATED,
\* ENDPOINTUPDATED, ENDPOINTDESTROYED) is answered by exactly one message on
\* EP_REP by its handler, when that handler returns, before the next receive.
C20_OneReplyPerRequest ==
    (ev.op \in {"heartbeat", "created", "updated", "destroyed"} /\ pc = "loop") =>
        ev.replies = 1

\* C21: a RESYNCSTATE reply that answers a request other than the one of the
\* active resync (a superseded request) neither completes the resync nor
\* sets its expected count, and no completion runs while resync_id is None.
C21_ResyncReplyCorrelation ==
    [][/\ (ev'.op = "resyncstate" /\ ev'.rid # resync_id) =>
              /\ ev'.completed = "no"
              /\ UNCHANGED <<resync_id, resync_recd, resync_expected, resync_time>>
       /\ ev'.completed # "no" => resync_id # None]_vars

====
